---------------------------- MODULE Spec2Model ----------------------------
(***************************************************************************)
(* A model of resolve.py: the iterative resolver `lookup`, its alias       *)
(* chasing and referral handling, and the aggregator `collect_results`.    *)
(* The recursion of `lookup` is an explicit stack of activation records.   *)
(* The servers' data is static: it is fixed by `zone`, chosen initially.   *)
(***************************************************************************)
EXTENDS Integers, Sequences, FiniteSets, TLC

VARIABLES
    zone,    \* the static data served by the name servers (environment)
    input,   \* the text given to collect_results
    cr,      \* collect_results: pc, the lists of full_response, and (history)
             \* the responses its lookups returned
    stack,   \* the activations of lookup, innermost last
    nextId,  \* history: the number of lookup invocations started so far
    sent,    \* history: every query sent, in order
    calls,   \* history: every lookup invocation started, in order
    ret,     \* history: the lookup invocation that returned last
    results, \* history: what every lookup invocation returned, in order
    last     \* history: the action taken last

vars == <<zone, input, cr, stack, nextId, sent, calls, ret, results, last>>

(***************************************************************************)
(* dns.rdatatype: the type codes the program compares with.                *)
(***************************************************************************)
A == 1
NS == 2
CNAME == 5
SOA == 6
MX == 15
AAAA == 28

\* collect_results' four lookups, in program order (lines 43, 49, 57, 65)
QTYPES == <<CNAME, A, AAAA, MX>>

\* FORMATS' keys, the keys of full_response (lines 14-17, 75-78)
KEYS == <<"CNAME", "A", "AAAA", "MX">>

ROOT_SERVERS ==
    << "198.41.0.4", "199.9.14.201", "192.33.4.12", "199.7.91.13",
       "192.203.230.10", "192.5.5.241", "192.112.36.4", "198.97.190.53",
       "192.36.148.17", "192.58.128.30", "193.0.14.129", "199.7.83.42",
       "202.12.27.33" >>

(***************************************************************************)
(* Names.  A dns.name.Name is its sequence of labels; an absolute name     *)
(* ends with the empty root label.  The text of a name is the sequence of  *)
(* its dot-separated pieces, so a text with a trailing dot ends with "".   *)
(***************************************************************************)
from_text(text) ==
    IF Len(text) > 0 /\ text[Len(text)] = "" THEN text ELSE Append(text, "")

to_text(name) == name

(***************************************************************************)
(* Rdata, and str() of one: the address of an A or AAAA record, the target *)
(* name's text of an NS or CNAME record.                                   *)
(***************************************************************************)
RdA(addr)      == [rdtype |-> A, address |-> addr]
RdAAAA(addr)   == [rdtype |-> AAAA, address |-> addr]
RdNS(name)     == [rdtype |-> NS, target |-> name]
RdCNAME(name)  == [rdtype |-> CNAME, target |-> name]
RdMX(pref, ex) == [rdtype |-> MX, preference |-> pref, exchange |-> ex]
RdSOA          == [rdtype |-> SOA]

str(rdata) ==
    IF rdata.rdtype \in {A, AAAA} THEN rdata.address ELSE to_text(rdata.target)

\* An RRset: owner name, type, and its records in order (never empty).
RRset(name, rdtype, items) == [name |-> name, rdtype |-> rdtype, items |-> items]

\* A dns.message.Message, reduced to its three sections.
Message(answer, authority, additional) ==
    [answer |-> answer, authority |-> authority, additional |-> additional]

Empty == Message(<<>>, <<>>, <<>>)

(***************************************************************************)
(* The environment: the name servers and what they serve.  Three tiers of  *)
(* servers (the roots, two TLD servers, two authoritative servers); the    *)
(* shape of each tier's referral, the way a name server's own host name    *)
(* resolves, and the authoritative data are the four fields of `zone`.     *)
(***************************************************************************)
TLD1  == "192.5.6.30"
TLD2  == "192.33.14.30"
AUTH1 == "199.43.135.53"
AUTH2 == "199.43.133.53"
HOST1 == "93.184.216.34"
HOST2 == "93.184.216.35"
HOST6 == "2606:2800:220:1::1"

COM     == <<"com", "">>
EXAMPLE == <<"example", "com", "">>
WWW     == <<"www", "example", "com", "">>
WEB     == <<"web", "example", "com", "">>
CDN     == <<"cdn", "example", "com", "">>
MAIL    == <<"mail", "example", "com", "">>
NSTLD1  == <<"a", "gtld", "">>
NSTLD2  == <<"b", "gtld", "">>
NSAUTH1 == <<"ns1", "example", "com", "">>
NSAUTH2 == <<"ns2", "example", "com", "">>

Roots == {ROOT_SERVERS[i] : i \in 1..Len(ROOT_SERVERS)}
NsNames == {NSTLD1, NSTLD2, NSAUTH1, NSAUTH2}
Canon(ns) == <<"canon">> \o ns

\* the addresses of a name server's host name: the one it serves at, and a second
NsAddr(ns) ==
    CASE ns = NSTLD1 -> <<TLD1, TLD2>>
      [] ns = NSTLD2 -> <<TLD2, TLD1>>
      [] ns = NSAUTH1 -> <<AUTH1, AUTH2>>
      [] OTHER -> <<AUTH2, AUTH1>>

ReferralKinds ==
    {"glue", "glue2", "glueMulti", "glue6", "only6", "nsOnly", "nsOnly2",
     "nsTwoSets", "soaNs", "soa", "empty"}
NsKinds == {"one", "two", "alias", "none"}
DataKinds ==
    {"plainA", "multi", "chain", "chainFull", "twoAlias", "twoAliasSets",
     "sameAlias", "mixed", "nothing"}

\* A response without an answer, referring to the servers ns1 (at ad1) and ns2 (at ad2).
Referral(kind, zoneName, ns1, ns2, ad1, ad2) ==
    CASE kind = "glue" ->
           Message(<<>>, <<RRset(zoneName, NS, <<RdNS(ns1)>>)>>,
                   <<RRset(ns1, A, <<RdA(ad1)>>)>>)
      [] kind = "glue2" ->
           Message(<<>>, <<RRset(zoneName, NS, <<RdNS(ns1), RdNS(ns2)>>)>>,
                   <<RRset(ns1, A, <<RdA(ad1)>>), RRset(ns2, A, <<RdA(ad2)>>)>>)
      [] kind = "glueMulti" ->
           Message(<<>>, <<RRset(zoneName, NS, <<RdNS(ns1)>>)>>,
                   <<RRset(ns1, A, <<RdA(ad1), RdA(ad2)>>)>>)
      [] kind = "glue6" ->
           Message(<<>>, <<RRset(zoneName, NS, <<RdNS(ns1)>>)>>,
                   <<RRset(ns1, AAAA, <<RdAAAA(HOST6)>>), RRset(ns1, A, <<RdA(ad1)>>)>>)
      [] kind = "only6" ->
           Message(<<>>, <<RRset(zoneName, NS, <<RdNS(ns1)>>)>>,
                   <<RRset(ns1, AAAA, <<RdAAAA(HOST6)>>)>>)
      [] kind = "nsOnly" ->
           Message(<<>>, <<RRset(zoneName, NS, <<RdNS(ns1)>>)>>, <<>>)
      [] kind = "nsOnly2" ->
           Message(<<>>, <<RRset(zoneName, NS, <<RdNS(ns1), RdNS(ns2)>>)>>, <<>>)
      [] kind = "nsTwoSets" ->
           Message(<<>>, <<RRset(zoneName, NS, <<RdNS(ns1)>>),
                           RRset(<<"">>, NS, <<RdNS(ns2)>>)>>, <<>>)
      [] kind = "soaNs" ->
           Message(<<>>, <<RRset(zoneName, SOA, <<RdSOA>>),
                           RRset(zoneName, NS, <<RdNS(ns1)>>)>>, <<>>)
      [] kind = "soa" ->
           Message(<<>>, <<RRset(zoneName, SOA, <<RdSOA>>)>>, <<>>)
      [] OTHER -> Empty

\* The answer to a query for the address of a name server's host name.
NsAnswer(kind, qname, qtype) ==
    LET ns == IF qname \in NsNames THEN qname ELSE Tail(qname) IN
    CASE qtype # A -> Empty
      [] kind = "one" -> Message(<<RRset(qname, A, <<RdA(NsAddr(ns)[1])>>)>>, <<>>, <<>>)
      [] kind = "two" ->
           Message(<<RRset(qname, A, <<RdA(NsAddr(ns)[1]), RdA(NsAddr(ns)[2])>>)>>,
                   <<>>, <<>>)
      [] kind = "alias" /\ qname \in NsNames ->
           Message(<<RRset(qname, CNAME, <<RdCNAME(Canon(qname))>>)>>, <<>>, <<>>)
      [] kind = "alias" ->
           Message(<<RRset(qname, A, <<RdA(NsAddr(ns)[1])>>)>>, <<>>, <<>>)
      [] OTHER -> Empty

Negative == Message(<<>>, <<RRset(EXAMPLE, SOA, <<RdSOA>>)>>, <<>>)
Answer(rrsets) == Message(rrsets, <<>>, <<>>)

\* What an authoritative server answers.
Data(kind, qname, qtype) ==
    CASE kind = "plainA" ->
           IF qname = WWW /\ qtype = A
           THEN Answer(<<RRset(WWW, A, <<RdA(HOST1)>>)>>) ELSE Negative
      [] kind = "multi" ->
           IF qname # WWW THEN Negative
           ELSE CASE qtype = A -> Answer(<<RRset(WWW, A, <<RdA(HOST1), RdA(HOST2)>>)>>)
                  [] qtype = AAAA -> Answer(<<RRset(WWW, AAAA, <<RdAAAA(HOST6)>>)>>)
                  [] qtype = MX ->
                       Answer(<<RRset(WWW, MX, <<RdMX(10, MAIL), RdMX(20, WEB)>>)>>)
                  [] OTHER -> Negative
      [] kind = "chain" ->
           CASE qname = WWW -> Answer(<<RRset(WWW, CNAME, <<RdCNAME(WEB)>>)>>)
             [] qname = WEB -> Answer(<<RRset(WEB, CNAME, <<RdCNAME(CDN)>>)>>)
             [] qname = CDN /\ qtype = A -> Answer(<<RRset(CDN, A, <<RdA(HOST1)>>)>>)
             [] OTHER -> Negative
      [] kind = "chainFull" ->
           LET tail == IF qtype = A THEN <<RRset(CDN, A, <<RdA(HOST1)>>)>> ELSE <<>> IN
           CASE qname = WWW ->
                  Answer(<<RRset(WWW, CNAME, <<RdCNAME(WEB)>>),
                           RRset(WEB, CNAME, <<RdCNAME(CDN)>>)>> \o tail)
             [] qname = WEB -> Answer(<<RRset(WEB, CNAME, <<RdCNAME(CDN)>>)>> \o tail)
             [] qname = CDN /\ qtype = A -> Answer(tail)
             [] OTHER -> Negative
      [] kind = "twoAlias" ->
           CASE qname = WWW -> Answer(<<RRset(WWW, CNAME, <<RdCNAME(WEB), RdCNAME(CDN)>>)>>)
             [] qname = WEB /\ qtype = A -> Answer(<<RRset(WEB, A, <<RdA(HOST1)>>)>>)
             [] qname = CDN /\ qtype = A -> Answer(<<RRset(CDN, A, <<RdA(HOST2)>>)>>)
             [] OTHER -> Negative
      [] kind = "twoAliasSets" ->
           CASE qname = WWW ->
                  Answer(<<RRset(WWW, CNAME, <<RdCNAME(WEB)>>),
                           RRset(MAIL, CNAME, <<RdCNAME(CDN)>>)>>)
             [] qname = WEB /\ qtype = A -> Answer(<<RRset(WEB, A, <<RdA(HOST1)>>)>>)
             [] qname = CDN /\ qtype = A -> Answer(<<RRset(CDN, A, <<RdA(HOST2)>>)>>)
             [] OTHER -> Negative
      [] kind = "sameAlias" ->
           CASE qname = WWW ->
                  Answer(<<RRset(WWW, CNAME, <<RdCNAME(WEB)>>),
                           RRset(MAIL, CNAME, <<RdCNAME(WEB)>>)>>)
             [] qname = WEB -> Answer(<<RRset(WEB, CNAME, <<RdCNAME(CDN)>>)>>)
             [] qname = CDN /\ qtype = A -> Answer(<<RRset(CDN, A, <<RdA(HOST1)>>)>>)
             [] OTHER -> Negative
      [] kind = "mixed" ->
           CASE qname = WWW ->
                  Answer(<<RRset(WWW, CNAME, <<RdCNAME(WEB)>>),
                           RRset(WEB, A, <<RdA(HOST1)>>),
                           RRset(WEB, MX, <<RdMX(10, MAIL)>>)>>)
             [] qname = WEB /\ qtype = A -> Answer(<<RRset(WEB, A, <<RdA(HOST1)>>)>>)
             [] qname = WEB /\ qtype = MX -> Answer(<<RRset(WEB, MX, <<RdMX(10, MAIL)>>)>>)
             [] OTHER -> Negative
      [] OTHER -> Negative

\* under the root kind "lame", only this many root servers, the first, refer on
Useful == 3

\* The response of the server at address s to the query (qname, qtype), when it responds.
Respond(z, s, qname, qtype) ==
    CASE qname \in NsNames \/ (Len(qname) > 0 /\ qname[1] = "canon") ->
           NsAnswer(z.ns, qname, qtype)
      [] s \in Roots /\ z.root = "lame" ->
           IF s \in {ROOT_SERVERS[i] : i \in 1..Useful}
           THEN Referral("glue", COM, NSTLD1, NSTLD2, TLD1, TLD2) ELSE Empty
      [] s \in Roots -> Referral(z.root, COM, NSTLD1, NSTLD2, TLD1, TLD2)
      [] s \in {TLD1, TLD2} -> Referral(z.tld, EXAMPLE, NSAUTH1, NSAUTH2, AUTH1, AUTH2)
      [] s \in {AUTH1, AUTH2} -> Data(z.data, qname, qtype)
      [] OTHER -> Empty

(***************************************************************************)
(* dns.query.udp(query, s, 3): the server's response, or an exception      *)
(* (dns.exception.Timeout, OSError) when the query fails.  It returns a    *)
(* Message whenever it returns.                                            *)
(***************************************************************************)
None == [none |-> TRUE]
Unbound == [unbound |-> TRUE]

udp(z, qname, qtype, s) == Respond(z, s, qname, qtype)

(***************************************************************************)
(* Helpers on sections.                                                    *)
(***************************************************************************)
RECURSIVE Flat(_)
Flat(ss) == IF ss = <<>> THEN <<>> ELSE Head(ss) \o Flat(Tail(ss))

\* every record of a section, in order, with the RRset it is in
Records(section) ==
    Flat([i \in 1..Len(section) |->
            [j \in 1..Len(section[i].items) |->
                [set |-> section[i], rd |-> section[i].items[j]]]])

IsCname(p) == p.rd.rdtype = CNAME

\* the addresses of the A records of a section
AddressesIn(section) ==
    {Records(section)[n].rd.address :
        n \in {m \in 1..Len(Records(section)) : Records(section)[m].rd.rdtype = A}}

\* lines 105-108: the alias targets met by the two loops over response.answer
CnameTargets(response) ==
    LET cn == SelectSeq(Records(response.answer), IsCname)
    IN  [n \in 1..Len(cn) |-> cn[n].rd.target]

IsAddressSet(rrset) == rrset.items[1].rdtype = A
FirstAddress(rrsets) == [n \in 1..Len(rrsets) |-> str(rrsets[n].items[1])]

\* the additional section searched for the wrong type
NextServersOfAAAA(response) ==
    LET IsAAAASet(rrset) == rrset.items[1].rdtype = AAAA
    IN  FirstAddress(SelectSeq(response.additional, IsAAAASet))

\* lines 118-122: next_servers
NextServers(response) ==
    FirstAddress(SelectSeq(response.additional, IsAddressSet))

NotSoa(rrset) == rrset.items[1].rdtype # SOA

\* lines 126-128: the host names the loop over response.authority resolves
AuthorityTargets(response) ==
    LET au == SelectSeq(response.authority, NotSoa)
    IN  [n \in 1..Len(au) |-> from_text(str(au[n].items[1]))]

IsAnswerOfA(rrset) == rrset.rdtype = A

\* lines 132-135: the servers a name server's resolution adds
ResolvedServers(next_response) ==
    IF next_response = None THEN <<>>
    ELSE FirstAddress(SelectSeq(next_response.answer, IsAnswerOfA))

\* line 102
HasAnswer(response) == response.answer # <<>>

\* the alias lookup's answer put in front
MergeInFront(response, cname_response) ==
    IF cname_response = None THEN response
    ELSE [response EXCEPT !.answer = cname_response.answer \o response.answer]

\* the merge left out
MergeDropped(response, cname_response) == response

\* lines 112-114
Merge(response, cname_response) ==
    IF cname_response = None THEN response
    ELSE [response EXCEPT !.answer = response.answer \o cname_response.answer]

\* pop() without its argument: the last candidate
poplast(servers) ==
    [server |-> servers[Len(servers)], rest |-> SubSeq(servers, 1, Len(servers) - 1)]

\* line 93: servers_to_query.pop(0)
pop0(servers) == [server |-> Head(servers), rest |-> Tail(servers)]

(***************************************************************************)
(* An activation of lookup.  pc is the call it is about to make:           *)
(*   "query"   line 97, dns.query.udp to the front of servers_to_query     *)
(*   "chase"   line 110, lookup of the c-th alias target                   *)
(*   "resolve" line 130, lookup of the k-th authority host name            *)
(*   "return"  lines 116 and 140                                           *)
(* The other fields are the locals of lookup, and history:                 *)
(*   term      the response with an answer, as it was received             *)
(*   chased    the responses the alias lookups returned                    *)
(*   recv      the response received last                                  *)
(*   rest      servers_to_query as the pop of this iteration left it       *)
(*   resolved  the name server lookups of this iteration: target, result   *)
(*   seen      the addresses of the A records in the additional sections   *)
(*             received and in the answers of its name server lookups      *)
(***************************************************************************)
\* an exhausted loop that returns nothing
LoopTopReturnsNone(f) ==
    IF f.servers_to_query # <<>> THEN [f EXCEPT !.pc = "query"]
    ELSE [f EXCEPT !.pc = "return", !.why = "exhausted", !.response = None]

\* a loop that does not end on an empty list
LoopTopSpins(f) ==
    IF f.servers_to_query # <<>> THEN [f EXCEPT !.pc = "query"]
    ELSE [f EXCEPT !.pc = "spin"]

\* line 92: the loop test
LoopTop(f) ==
    IF f.servers_to_query # <<>> THEN [f EXCEPT !.pc = "query"]
    ELSE [f EXCEPT !.pc = "return", !.why = "exhausted"]

\* the return of line 116 left out: the loop goes on after the merge
ChaseOnWithoutReturn(f) ==
    IF f.c <= Len(CnameTargets(f.term)) THEN [f EXCEPT !.pc = "chase"]
    ELSE LoopTop([f EXCEPT !.response = Merge(f.response, f.cname_response)])

\* lines 105-116: on to the next alias, or merge and return
ChaseOn(f) ==
    IF f.c <= Len(CnameTargets(f.term)) THEN [f EXCEPT !.pc = "chase"]
    ELSE [f EXCEPT !.pc = "return", !.why = "answer",
                   !.response = Merge(f.response, f.cname_response)]

\* lines 126-135: on to the next authority, or back to the loop test
ResolveOn(f) ==
    IF f.k <= Len(AuthorityTargets(f.response)) THEN [f EXCEPT !.pc = "resolve"]
    ELSE LoopTop(f)

\* line 89 without the copy, on a root list that the pops of every invocation
\* consume (its last server is kept, so that the loop is entered)
NewFrameOnSharedList(id, target_name, qtype) ==
    LET popped == Cardinality({n \in 1..Len(sent) : sent[n].server \in Roots})
        from == IF popped < Len(ROOT_SERVERS) THEN popped + 1 ELSE Len(ROOT_SERVERS)
    IN  LoopTop([id |-> id, target_name |-> target_name, qtype |-> qtype,
                 servers_to_query |-> SubSeq(ROOT_SERVERS, from, Len(ROOT_SERVERS)),
                 response |-> Unbound,
                 pc |-> "query", why |-> "", c |-> 1, k |-> 1,
                 cname_response |-> None, term |-> Unbound, chased |-> <<>>,
                 recv |-> Unbound, rest |-> <<>>, resolved |-> <<>>, seen |-> {}])

\* line 89
NewFrame(id, target_name, qtype) ==
    LoopTop([id |-> id, target_name |-> target_name, qtype |-> qtype,
             servers_to_query |-> ROOT_SERVERS, response |-> Unbound,
             pc |-> "query", why |-> "", c |-> 1, k |-> 1,
             cname_response |-> None, term |-> Unbound, chased |-> <<>>,
             recv |-> Unbound, rest |-> <<>>, resolved |-> <<>>, seen |-> {}])

\* lines 99-138: the rest of the iteration, once dns.query.udp has returned
Received(f, response) ==
    LET g == [f EXCEPT !.response = response, !.recv = response,
                       !.rest = f.servers_to_query, !.resolved = <<>>,
                       !.seen = f.seen \cup AddressesIn(response.additional)] IN
    IF response = None THEN LoopTop(g)
    ELSE IF HasAnswer(response)
    THEN ChaseOn([g EXCEPT !.c = 1, !.cname_response = None, !.term = response])
    ELSE IF NextServers(response) = <<>>
    THEN ResolveOn([g EXCEPT !.k = 1])
    ELSE LoopTop([g EXCEPT !.servers_to_query = NextServers(response)])

\* line 110: the alias lookup has returned
Chased(f, cname_response) ==
    ChaseOn([f EXCEPT !.cname_response = cname_response, !.c = f.c + 1,
                      !.chased = Append(f.chased, cname_response)])

\* the resolved servers put in front of the list
ResolvedInFront(f, next_response) ==
    ResolveOn([f EXCEPT
        !.servers_to_query = ResolvedServers(next_response) \o f.servers_to_query,
        !.k = f.k + 1,
        !.seen = f.seen \cup AddressesIn(next_response.answer),
        !.resolved = Append(f.resolved,
            [target |-> AuthorityTargets(f.response)[f.k], value |-> next_response])])

\* lines 130-135: the name server's lookup has returned
Resolved(f, next_response) ==
    ResolveOn([f EXCEPT
        !.servers_to_query = f.servers_to_query \o ResolvedServers(next_response),
        !.k = f.k + 1,
        !.seen = f.seen \cup AddressesIn(next_response.answer),
        !.resolved = Append(f.resolved,
            [target |-> AuthorityTargets(f.response)[f.k], value |-> next_response])])

(***************************************************************************)
(* collect_results.                                                        *)
(***************************************************************************)
\* lines 45-47
CnameEntries(name, response) ==
    LET rs == Records(response.answer)
    IN  [n \in 1..Len(rs) |-> [name |-> rs[n].rd, alias |-> name]]

IsA(p) == p.rd.rdtype = 1
IsAAAA(p) == p.rd.rdtype = 28
IsMX(p) == p.rd.rdtype = 15

\* lines 51-55
AEntries(response) ==
    LET rs == SelectSeq(Records(response.answer), IsA)
    IN  [n \in 1..Len(rs) |-> [name |-> rs[n].set.name, address |-> str(rs[n].rd)]]

\* lines 59-63
AAAAEntries(response) ==
    LET rs == SelectSeq(Records(response.answer), IsAAAA)
    IN  [n \in 1..Len(rs) |-> [name |-> rs[n].set.name, address |-> str(rs[n].rd)]]

\* lines 67-73
MXEntries(response) ==
    LET rs == SelectSeq(Records(response.answer), IsMX)
    IN  [n \in 1..Len(rs) |->
            [name |-> rs[n].set.name, preference |-> rs[n].rd.preference,
             exchange |-> to_text(rs[n].rd.exchange)]]

Entries(n, name, response) ==
    CASE n = 1 -> CnameEntries(name, response)
      [] n = 2 -> AEntries(response)
      [] n = 3 -> AAAAEntries(response)
      [] OTHER -> MXEntries(response)

(***************************************************************************)
(* The state machine.                                                      *)
(***************************************************************************)
Zones ==
    [root : {"glue"}, tld : {"glue"}, ns : {"one"}, data : DataKinds]
    \cup [root : ReferralKinds, tld : {"glue"}, ns : NsKinds, data : {"plainA"}]
    \cup [root : {"glue"}, tld : ReferralKinds, ns : NsKinds,
          data : {"plainA", "chain", "twoAlias"}]
    \cup [root : {"nsOnly", "glue2"}, tld : {"nsOnly", "glue2"}, ns : {"one", "two"},
          data : {"chain", "mixed", "multi"}]
    \cup [root : {"lame"}, tld : {"glue", "soa"}, ns : {"one"},
          data : {"plainA", "chainFull", "sameAlias"}]

Inputs == { <<"www", "example", "com">>, <<"www", "example", "com", "">> }

NoLists == [key \in {KEYS[n] : n \in 1..Len(KEYS)} |-> <<>>]

Init ==
    /\ zone \in Zones
    /\ input \in Inputs
    /\ cr = [pc |-> "idle", n |-> 0, lists |-> NoLists, responses |-> <<>>]
    /\ stack = <<>>
    /\ nextId = 0
    /\ sent = <<>>
    /\ calls = <<>>
    /\ ret = None
    /\ results = <<>>
    /\ last = "Init"

Top == stack[Len(stack)]
Caller == stack[Len(stack) - 1]
\* the call not waited for: the caller stays the running activation
PushUnder(f) == SubSeq(stack, 1, Len(stack) - 1) \o <<f, stack[Len(stack)]>>

Push(f) == Append(stack, f)
\* one candidate list shared by an invocation and its caller
ReplaceTopShared(f) ==
    IF Len(stack) > 1
    THEN [stack EXCEPT ![Len(stack)] = f,
                       ![Len(stack) - 1].servers_to_query = f.servers_to_query]
    ELSE [stack EXCEPT ![Len(stack)] = f]

ReplaceTop(f) == [stack EXCEPT ![Len(stack)] = f]
\* the callee is gone and the caller goes on as f
PopTo(f) == [SubSeq(stack, 1, Len(stack) - 1) EXCEPT ![Len(stack) - 1] = f]

Call(parent, kind, target_name, qtype) ==
    /\ nextId' = nextId + 1
    /\ calls' = Append(calls, [id |-> nextId + 1, parent |-> parent, kind |-> kind,
                               target_name |-> target_name, qtype |-> qtype])

Return(f) ==
    /\ ret' = [id |-> f.id, kind |-> calls[f.id].kind, why |-> f.why,
               value |-> f.response, term |-> f.term, chased |-> f.chased,
               recv |-> f.recv, left |-> f.servers_to_query, n |-> cr.n]
    /\ results' = Append(results, [id |-> f.id, name |-> f.target_name,
                                   qtype |-> f.qtype, value |-> f.response])

\* lines 40-43: collect_results(name) up to its first lookup
Start ==
    /\ cr.pc = "idle"
    /\ cr' = [cr EXCEPT !.pc = "lookup", !.n = 1]
    /\ Call(0, "top", from_text(input), QTYPES[1])
    /\ stack' = <<NewFrame(nextId + 1, from_text(input), QTYPES[1])>>
    /\ last' = "Start"
    /\ UNCHANGED <<zone, input, sent, ret, results>>

\* lines 93-138: one iteration of the loop whose query is responded to
Query ==
    /\ stack # <<>>
    /\ Top.pc = "query"
    /\ LET server == pop0(Top.servers_to_query).server
           popped == [Top EXCEPT !.servers_to_query = pop0(Top.servers_to_query).rest]
           response == udp(zone, Top.target_name, Top.qtype, server)
       IN  /\ stack' = ReplaceTop(Received(popped, response))
           /\ sent' = Append(sent, [id |-> Top.id, server |-> server,
                                    name |-> Top.target_name, qtype |-> Top.qtype,
                                    failed |-> FALSE,
                                    answered |-> response.answer # <<>>])
    /\ last' = "Query"
    /\ UNCHANGED <<zone, input, cr, nextId, calls, ret, results>>

\* lines 93-97: the query fails, dns.query.udp raises, and nothing catches it
QueryFail ==
    /\ stack # <<>>
    /\ Top.pc = "query"
    /\ sent' = Append(sent, [id |-> Top.id,
                             server |-> pop0(Top.servers_to_query).server,
                             name |-> Top.target_name, qtype |-> Top.qtype,
                             failed |-> TRUE, answered |-> FALSE])
    /\ stack' = <<>>
    /\ cr' = [cr EXCEPT !.pc = "raised"]
    /\ last' = "QueryFail"
    /\ UNCHANGED <<zone, input, nextId, calls, ret, results>>

\* line 110: the call of lookup for an alias target
Chase ==
    /\ stack # <<>>
    /\ Top.pc = "chase"
    /\ LET target == CnameTargets(Top.term)[Top.c] IN
       /\ Call(Top.id, "cname", target, Top.qtype)
       /\ stack' = Push(NewFrame(nextId + 1, target, Top.qtype))
    /\ last' = "Chase"
    /\ UNCHANGED <<zone, input, cr, sent, ret, results>>

\* line 130: the call of lookup for a name server's address
Resolve ==
    /\ stack # <<>>
    /\ Top.pc = "resolve"
    /\ LET target == AuthorityTargets(Top.response)[Top.k] IN
       /\ Call(Top.id, "ns", target, A)
       /\ stack' = Push(NewFrame(nextId + 1, target, A))
    /\ last' = "Resolve"
    /\ UNCHANGED <<zone, input, cr, sent, ret, results>>

\* lines 116, 140 -> 110-116: an alias lookup returns to its caller
ReturnToChase ==
    /\ Len(stack) > 1
    /\ Top.pc = "return"
    /\ Caller.pc = "chase"
    /\ Return(Top)
    /\ stack' = PopTo(Chased(Caller, Top.response))
    /\ last' = "ReturnToChase"
    /\ UNCHANGED <<zone, input, cr, nextId, sent, calls>>

\* lines 116, 140 -> 130-138: a name server's lookup returns to its caller
ReturnToResolve ==
    /\ Len(stack) > 1
    /\ Top.pc = "return"
    /\ Caller.pc = "resolve"
    /\ Return(Top)
    /\ stack' = PopTo(Resolved(Caller, Top.response))
    /\ last' = "ReturnToResolve"
    /\ UNCHANGED <<zone, input, cr, nextId, sent, calls>>

\* lines 43-65: a lookup returns to collect_results, which goes on to the next
ReturnToCollect ==
    /\ Len(stack) = 1
    /\ Top.pc = "return"
    /\ cr.n < Len(QTYPES)
    /\ Return(Top)
    /\ IF Top.response = None
       THEN /\ cr' = [cr EXCEPT !.pc = "raised"]
            /\ stack' = <<>>
            /\ UNCHANGED <<nextId, calls>>
       ELSE /\ cr' = [cr EXCEPT !.n = cr.n + 1,
                         !.lists[KEYS[cr.n]] = Entries(cr.n, input, Top.response),
                         !.responses = Append(cr.responses, Top.response)]
            /\ Call(0, "top", from_text(input), QTYPES[cr.n + 1])
            /\ stack' = <<NewFrame(nextId + 1, from_text(input), QTYPES[cr.n + 1])>>
    /\ last' = "ReturnToCollect"
    /\ UNCHANGED <<zone, input, sent>>

\* lines 65-80: the last lookup returns, and collect_results returns full_response
Finish ==
    /\ Len(stack) = 1
    /\ Top.pc = "return"
    /\ cr.n = Len(QTYPES)
    /\ Return(Top)
    /\ IF Top.response = None
       THEN cr' = [cr EXCEPT !.pc = "raised"]
       ELSE cr' = [cr EXCEPT !.pc = "done",
                      !.lists[KEYS[cr.n]] = Entries(cr.n, input, Top.response),
                      !.responses = Append(cr.responses, Top.response)]
    /\ stack' = <<>>
    /\ last' = "Finish"
    /\ UNCHANGED <<zone, input, nextId, sent, calls>>

Next ==
    \/ Start
    \/ Query
    \/ QueryFail
    \/ Chase
    \/ Resolve
    \/ ReturnToChase
    \/ ReturnToResolve
    \/ ReturnToCollect
    \/ Finish

Spec == Init /\ [][Next]_vars

\* the program is one thread that runs whenever it can take a step
LiveSpec == Spec /\ WF_vars(Next)

(***************************************************************************)
(* The properties.                                                         *)
(***************************************************************************)
Range(seq) == {seq[n] : n \in 1..Len(seq)}
Running == stack # <<>>

\* C1: a query that fails is not surfaced to the caller: after the failure the
\* invocation is still running, on to its next candidate.
C1_FailureNotSurfaced ==
    last = "QueryFail" => (cr.pc # "raised" /\ Running)

\* C2: when every query sent has failed, collect_results has not failed: the
\* lookup goes on (one attempt for each root server) or has returned, and the
\* list of its record type is empty.
C2_AllFailuresYieldEmpty ==
    (sent # <<>> /\ \A n \in 1..Len(sent) : sent[n].failed)
        => /\ cr.pc \in {"lookup", "done"}
           /\ Len(sent) <= Len(ROOT_SERVERS)
           /\ \A key \in DOMAIN cr.lists : cr.lists[key] = <<>>

IsAddress(p) == p.rd.rdtype = A
\* the address strings of every A record of a section, in section order
AllAddresses(section) ==
    LET rs == SelectSeq(Records(section), IsAddress)
    IN  [n \in 1..Len(rs) |-> rs[n].rd.address]

\* the state right after an iteration whose response had no answer
Referred ==
    /\ last = "Query"
    /\ Running
    /\ Top.recv # Unbound
    /\ Top.recv.answer = <<>>

\* C3: after a response without an answer whose additional section holds an A
\* record, the candidate list is exactly the addresses of all the A records of
\* the additional section, and no name server lookup is started.
C3_ReferralReplacesWithAllAddresses ==
    (Referred /\ AllAddresses(Top.recv.additional) # <<>>)
        => /\ Top.servers_to_query = AllAddresses(Top.recv.additional)
           /\ Top.pc # "resolve"

NotSoaRecord(p) == p.rd.rdtype # SOA
\* the host name of every authority record that is not an SOA, in order
AllAuthorityNames(section) ==
    LET rs == SelectSeq(Records(section), NotSoaRecord)
    IN  [n \in 1..Len(rs) |-> rs[n].rd.target]

\* the state in which the authority fallback of an iteration is over
FellBack ==
    /\ last \in {"Query", "ReturnToResolve"}
    /\ Running
    /\ Top.pc \in {"query", "return"}
    /\ Top.recv # Unbound
    /\ Top.recv.answer = <<>>
    /\ AllAddresses(Top.recv.additional) = <<>>

\* C4: in the authority fallback every name server named by an authority record
\* that is not an SOA has been looked up (type A), and every address of every
\* such result has been appended to the candidate list.
C4_EveryAuthorityNameResolved ==
    FellBack =>
        /\ [n \in 1..Len(Top.resolved) |-> Top.resolved[n].target]
              = AllAuthorityNames(Top.recv.authority)
        /\ Top.servers_to_query
              = Top.rest \o Flat([n \in 1..Len(Top.resolved) |->
                                     AllAddresses(Top.resolved[n].value.answer)])

\* C5: a lookup that returns an answer has looked up every alias target of it,
\* and the answer records of every one of these lookups are in what it returns.
C5_AllChasesMerged ==
    (ret # None /\ ret.why = "answer") =>
        /\ Len(ret.chased) = Len(CnameTargets(ret.term))
        /\ \A n \in 1..Len(ret.chased) :
               Range(ret.chased[n].answer) \subseteq Range(ret.value.answer)

\* C6: the first response with an answer ends the invocation's own queries: no
\* query of an invocation follows an answered query of it, an invocation that
\* holds an answer only chases aliases or returns, and what it returns is that
\* response, merged.
C6_AnswerIsTerminal ==
    /\ \A m \in 1..(Len(sent) - 1) :
           sent[m].id = sent[Len(sent)].id => ~sent[m].answered
    /\ \A d \in 1..Len(stack) :
           stack[d].term # Unbound => stack[d].pc \in {"chase", "return"}
    /\ (ret # None /\ ret.term # Unbound) =>
           /\ ret.why = "answer"
           /\ ret.recv = ret.term
           /\ ret.value.authority = ret.term.authority
           /\ ret.value.additional = ret.term.additional
           /\ Len(ret.value.answer) >= Len(ret.term.answer)

\* C6's case: an answer came while candidates remained, aliases were chased,
\* and the invocation returned.
C6_Witness ==
    /\ ret # None
    /\ ret.why = "answer"
    /\ ret.left # <<>>
    /\ ret.chased # <<>>

\* the referrals of both tiers lead to a server of the next tier
Leads(kind, ns) ==
    \/ kind \in {"glue", "glue2", "glueMulti", "glue6"}
    \/ kind \in {"only6", "nsOnly", "nsOnly2", "nsTwoSets", "soaNs"} /\ ns # "none"
Delegates(z) == Leads(z.root, z.ns) /\ Leads(z.tld, z.ns)

\* each referral names one name server
Linear(z) ==
    /\ Delegates(z)
    /\ z.root \in {"glue", "glue6", "only6", "nsOnly", "soaNs"}
    /\ z.tld \in {"glue", "glue6", "only6", "nsOnly", "soaNs"}

\* C7: for the alias chain www -> web -> cdn with an address for cdn, served
\* under a delegation that leads to the authoritative servers, the result of
\* collect_results(www) has the www -> web alias entry in its CNAME list and
\* the address entry of cdn in its A list.
C7_AliasChainTransitive ==
    (cr.pc = "done" /\ zone.data \in {"chain", "chainFull"} /\ Delegates(zone)) =>
        /\ [name |-> RdCNAME(WEB), alias |-> input] \in Range(cr.lists["CNAME"])
        /\ [name |-> CDN, address |-> HOST1] \in Range(cr.lists["A"])

C7_Witness ==
    /\ cr.pc = "done"
    /\ zone.data = "chain"
    /\ zone.tld = "nsOnly"
    /\ Delegates(zone)
    /\ [name |-> CDN, address |-> HOST1] \in Range(cr.lists["A"])

Returned == ret # None /\ last \in {"ReturnToChase", "ReturnToResolve",
                                    "ReturnToCollect", "Finish"}

\* C9: an invocation whose candidates are exhausted without an answer returns
\* the response it received last, which has no answer; collect_results does
\* not fail on it and the list of that record type is empty.
C9_ExhaustionReturnsLastResponse ==
    (Returned /\ ret.why = "exhausted") =>
        /\ ret.term = Unbound
        /\ ret.recv # Unbound
        /\ ret.value = ret.recv
        /\ ret.value.answer = <<>>
        /\ ret.left = <<>>
        /\ ret.kind = "top" => (cr.pc # "raised" /\ cr.lists[KEYS[ret.n]] = <<>>)

C9_Witness ==
    /\ Returned
    /\ ret.why = "exhausted"
    /\ ret.kind = "top"
    /\ ret.value = Negative
    /\ cr.lists[KEYS[ret.n]] = <<>>

\* C10: under a linear root -> TLD -> authoritative delegation whose
\* authoritative servers have the one address record of www and nothing else,
\* collect_results(www) does not stop before it is done (no query failing), and
\* its result is that one entry in the A list and three empty lists.
C10_DelegationWalk ==
    (zone.data = "plainA" /\ Linear(zone)) =>
        /\ cr.pc \in {"done", "raised"} \/ ENABLED Next
        /\ cr.pc = "done" =>
              /\ cr.lists["A"] = <<[name |-> from_text(input), address |-> HOST1]>>
              /\ cr.lists["CNAME"] = <<>>
              /\ cr.lists["AAAA"] = <<>>
              /\ cr.lists["MX"] = <<>>

C10_Witness ==
    /\ zone.data = "plainA"
    /\ zone.root = "glue"
    /\ zone.tld = "glue"
    /\ cr.pc = "done"
    /\ Len(cr.lists["A"]) = 1
    /\ Len(sent) = 12

\* the records of an answer section, as a set
RecordSet(answer) ==
    {[name |-> p.set.name, rd |-> p.rd] : p \in Range(Records(answer))}

\* C11: two invocations of lookup with the same name and record type, against
\* the same server data, return answer sections with the same set of records.
C11_SameQuerySameRecords ==
    \A m \in 1..(Len(results) - 1) :
        LET a == results[m]
            b == results[Len(results)]
        IN  (a.name = b.name /\ a.qtype = b.qtype)
                => RecordSet(a.value.answer) = RecordSet(b.value.answer)

\* C11's case: a name and type looked up a second time, with an answer
C11_Witness ==
    \E m, n \in 1..Len(results) :
        /\ m < n
        /\ results[m].name = results[n].name
        /\ results[m].qtype = results[n].qtype
        /\ results[m].value.answer # <<>>

\* an invocation in (or just after) the authority fallback of its last response
InFallback(f) ==
    /\ f.recv # Unbound
    /\ f.recv.answer = <<>>
    /\ AllAddresses(f.recv.additional) = <<>>

\* the addresses the name server lookups of this iteration have returned
Obtained(f) ==
    UNION {Range(AllAddresses(f.resolved[n].value.answer)) :
              n \in 1..Len(f.resolved)}

\* C12: in the authority fallback the candidates left by the pop stay, in
\* their order, the front of the candidate list; what follows them are
\* addresses that the name server lookups returned; and when these lookups
\* give no address the list is exactly what the pop left.
C12_FallbackAppends ==
    \A d \in 1..Len(stack) :
        LET f == stack[d] IN
        InFallback(f) =>
            /\ Len(f.servers_to_query) >= Len(f.rest)
            /\ SubSeq(f.servers_to_query, 1, Len(f.rest)) = f.rest
            /\ \A n \in (Len(f.rest) + 1)..Len(f.servers_to_query) :
                   f.servers_to_query[n] \in Obtained(f)
            /\ Obtained(f) = {} => f.servers_to_query = f.rest

\* C12's case: candidates were left, and a name server lookup added one
C12_Witness ==
    /\ Running
    /\ InFallback(Top)
    /\ Top.rest # <<>>
    /\ Len(Top.servers_to_query) > Len(Top.rest)

\* C13: the answer section that lookup returns begins with the answer
\* records of the terminal response, in their order; and without an alias
\* record in it that response is returned as it is and no alias lookup was
\* started by the invocation.
C13_TerminalAnswerIsPrefix ==
    (ret # None /\ ret.why = "answer") =>
        /\ Len(ret.value.answer) >= Len(ret.term.answer)
        /\ SubSeq(ret.value.answer, 1, Len(ret.term.answer)) = ret.term.answer
        /\ CnameTargets(ret.term) = <<>> =>
              /\ ret.value = ret.term
              /\ ret.chased = <<>>
              /\ \A n \in 1..Len(calls) :
                     calls[n].parent = ret.id => calls[n].kind = "ns"

\* C13's case: alias lookups added records after those of the terminal response
C13_Witness ==
    /\ ret # None
    /\ ret.why = "answer"
    /\ ret.chased # <<>>
    /\ Len(ret.value.answer) > Len(ret.term.answer)

\* the queries an invocation has sent
SentBy(id) == {n \in 1..Len(sent) : sent[n].id = id}

C14_Seeded ==
    /\ \A d \in 1..Len(stack) :
           stack[d].recv = Unbound => stack[d].servers_to_query = ROOT_SERVERS
    /\ sent # <<>> =>
           LET q == sent[Len(sent)] IN
           /\ q.name = calls[q.id].target_name
           /\ q.qtype = calls[q.id].qtype
           /\ SentBy(q.id) = {Len(sent)} => q.server = ROOT_SERVERS[1]

C14_FrontFirst ==
    last' \in {"Query", "QueryFail"} =>
        /\ Len(sent') = Len(sent) + 1
        /\ sent'[Len(sent')].id = Top.id
        /\ sent'[Len(sent')].server = Head(Top.servers_to_query)
        /\ last' = "Query" =>
              stack'[Len(stack')].rest = Tail(Top.servers_to_query)

\* C14: every invocation starts with the root servers, in their order, as its
\* candidates; every query goes to the front of the candidate list, which is
\* removed from it, so the first query of an invocation goes to the first root
\* server; and every query carries the invocation's name and record type.
C14_RootsFirstInOrder == []C14_Seeded /\ [][C14_FrontFirst]_vars

\* C14's case: an alias lookup and a name server lookup have each sent a
\* first query, and some invocation has gone on to a second candidate
C14_Witness ==
    /\ \E n \in 1..Len(sent) : calls[sent[n].id].kind = "cname"
    /\ \E n \in 1..Len(sent) : calls[sent[n].id].kind = "ns"
    /\ \E n \in 1..Len(sent) : sent[n].server = ROOT_SERVERS[2]

IsPrefix(s, t) == Len(s) <= Len(t) /\ SubSeq(t, 1, Len(s)) = s

C15_Step ==
    LET n == Len(stack) IN
    /\ last' = "Query" =>
          /\ Len(stack') = n
          /\ \A d \in 1..(n - 1) : stack'[d] = stack[d]
    /\ last' \in {"Chase", "Resolve"} =>
          /\ Len(stack') = n + 1
          /\ \A d \in 1..n : stack'[d] = stack[d]
    /\ last' \in {"ReturnToChase", "ReturnToResolve"} =>
          /\ Len(stack') = n - 1
          /\ \A d \in 1..(n - 2) : stack'[d] = stack[d]
          /\ stack'[n - 1].target_name = stack[n - 1].target_name
          /\ stack'[n - 1].qtype = stack[n - 1].qtype
          /\ stack'[n - 1].recv = stack[n - 1].recv
          /\ stack'[n - 1].rest = stack[n - 1].rest
          /\ IsPrefix(stack[n - 1].servers_to_query, stack'[n - 1].servers_to_query)
          /\ last' = "ReturnToChase" =>
                stack'[n - 1].servers_to_query = stack[n - 1].servers_to_query

C15_Roots ==
    /\ Len(ROOT_SERVERS) = 13
    /\ Cardinality(Roots) = 13
    /\ ROOT_SERVERS[1] = "198.41.0.4"
    /\ ROOT_SERVERS[13] = "202.12.27.33"

\* C15: while an invocation of lookup runs, the candidate list and the loop
\* state of its caller and of every other invocation stay as they are (the
\* caller's list changes only by the caller's own append when a name server
\* lookup has returned), and the root servers are the same 13 addresses in
\* the same order throughout.
C15_Isolation == []C15_Roots /\ [][C15_Step]_vars

\* C15's case: a lookup two calls deep has sent a query and returned
C15_Witness ==
    /\ Len(stack) >= 2
    /\ ret # None
    /\ calls[ret.id].parent # 0
    /\ calls[calls[ret.id].parent].parent # 0
    /\ last = "ReturnToChase"

\* the invocations started and not yet returned
ActiveIds == {calls[n].id : n \in 1..Len(calls)} \ {results[n].id : n \in 1..Len(results)}

IsTop(call) == call.kind = "top"

\* C16: execution is sequential.  The activations form one chain of calls in
\* which every one but the innermost waits in a call of lookup; a query is
\* sent by the innermost, so never by a caller whose lookup has not returned;
\* and collect_results starts its lookups for CNAME, A, AAAA, MX in this
\* order, each when every invocation started before it has returned.
C16_Sequential ==
    /\ \A d \in 1..(Len(stack) - 1) :
           /\ stack[d].pc \in {"chase", "resolve"}
           /\ stack[d].id < stack[d + 1].id
           /\ calls[stack[d + 1].id].parent = stack[d].id
    /\ cr.pc # "raised" => {stack[d].id : d \in 1..Len(stack)} = ActiveIds
    /\ last = "Query" =>
           /\ sent[Len(sent)].id = Top.id
           /\ \A id \in ActiveIds : id <= sent[Len(sent)].id
    /\ LET tops == SelectSeq(calls, IsTop) IN
       /\ Len(tops) <= 4
       /\ \A m \in 1..Len(tops) :
              /\ tops[m].qtype = <<CNAME, A, AAAA, MX>>[m]
              /\ tops[m].parent = 0
              /\ \A id \in 1..(tops[m].id - 1) :
                     \E n \in 1..Len(results) : results[n].id = id

\* C16's case: the fourth lookup of collect_results runs, and an invocation
\* that waited for a lookup of its own has sent a query after its return
C16_Witness ==
    /\ cr.n = 4
    /\ last = "Query"
    /\ \E n \in 1..Len(calls) : calls[n].parent = Top.id /\ calls[n].kind = "ns"

\* C17: every server an invocation queries, and every candidate it holds, is a
\* root server, or the address of an A record of the additional section of a
\* response this invocation received, or of an A record in the answer of a name
\* server lookup this invocation made.
C17_ServerProvenance ==
    /\ \A d \in 1..Len(stack) :
           Range(stack[d].servers_to_query) \subseteq Roots \cup stack[d].seen
    /\ last = "Query" => sent[Len(sent)].server \in Roots \cup Top.seen

\* C17's case: an invocation that learnt servers from an additional section
\* and from a name server lookup of its own has queried a server that is no
\* root server
C17_Witness ==
    /\ last = "Query"
    /\ sent[Len(sent)].server \notin Roots
    /\ sent[Len(sent)].server \in Top.seen
    /\ \E n \in 1..Len(calls) : calls[n].parent = Top.id /\ calls[n].kind = "ns"
    /\ \E n \in 1..Len(sent) : sent[n].id = Top.id /\ sent[n].server = TLD1

\* server data in which a response without an answer carries no referral or
\* the addresses, in its additional section, of servers of the next tier (the
\* alias records of every data kind are free of cycles)
WellFormed(z) ==
    /\ z.root \in {"glue", "glue2", "glueMulti", "glue6", "soa", "empty", "lame"}
    /\ z.tld \in {"glue", "glue2", "glueMulti", "glue6", "soa", "empty"}

Terminated ==
    \/ cr.pc = "raised"
    \/ cr.pc = "done" /\ stack = <<>> /\ ActiveIds = {}

\* C18: on well-formed server data collect_results comes to its end, every
\* invocation of lookup having returned (or a failed query having raised).
C18_Terminates == WellFormed(zone) => <>Terminated

\* C18's case: a run over alias chains and referrals has come to its end with
\* every invocation returned
C18_Witness ==
    /\ WellFormed(zone)
    /\ zone.data = "chainFull"
    /\ cr.pc = "done"
    /\ ActiveIds = {}
    /\ Len(results) > 4

\* C19: every entry of the CNAME list has the name that was passed to
\* collect_results as its alias, also an entry of a record whose owner is a
\* later name of the chain, and the target of an alias record as its name.
C19_AliasEntryShape ==
    cr.n >= 1 =>
        \A n \in 1..Len(cr.lists["CNAME"]) :
            LET entry == cr.lists["CNAME"][n]
                p == Records(cr.responses[1].answer)[n]
            IN  /\ entry.alias = input
                /\ IsCname(p)
                /\ entry.name = RdCNAME(p.rd.target)

=============================================================================
